---- MODULE Spec2Model ----
(***************************************************************************)
(* Model of main.py, the Docker Compose analyzer: the /analyze handler     *)
(* (analyze_compose) from the parsed YAML tree to the response payload,    *)
(* and the pure helpers it calls.                                          *)
(*                                                                         *)
(* Python values are tagged records [kind, val].  Strings are sequences of *)
(* one-character strings, so that lower(), split(":"), isdigit(), the "in" *)
(* substring test and str() are computed character by character.           *)
(***************************************************************************)
EXTENDS Integers, Sequences, FiniteSets, TLC

VARIABLES pc, parsed, services_data, service_count_total, idx,
          normalized_services, response, detail, call

vars == <<pc, parsed, services_data, service_count_total, idx,
          normalized_services, response, detail, call>>

(***************************************************************************)
(* Python values as produced by yaml.safe_load                             *)
(***************************************************************************)
None == [kind |-> "null", val |-> 0]

PyStr(s) == [kind |-> "str", val |-> s]

PyInt(n) == [kind |-> "int", val |-> n]

PyBool(b) == [kind |-> "bool", val |-> b]

\* a float with an integral value n.0 (val holds n)
PyFloat(n) == [kind |-> "float", val |-> n]

\* val: the sequence of the items
PyList(l) == [kind |-> "list", val |-> l]

\* val: the sequence of <<key, value>> pairs, in insertion order, keys distinct
PyDict(m) == [kind |-> "dict", val |-> m]

\* isinstance(v, int): bool is a subclass of int
IsInt(v) == v.kind \in {"int", "bool"}

\* the integer an int (or bool) compares equal to
IntOf(v) == IF v.kind = "bool" THEN (IF v.val THEN 1 ELSE 0) ELSE v.val

\* d.get(key, default) with a string key
dict_get(d, key, default) ==
    IF \E i \in 1..Len(d.val) : d.val[i][1] = PyStr(key)
    THEN LET i == CHOOSE j \in 1..Len(d.val) : d.val[j][1] = PyStr(key)
         IN d.val[i][2]
    ELSE default

(***************************************************************************)
(* str methods                                                             *)
(***************************************************************************)
UpperChars == <<"A", "B", "C", "D", "E", "F", "G", "H", "I", "J", "K", "L", "M", "N", "O", "P", "Q", "R", "S", "T", "U", "V", "W", "X", "Y", "Z">>

LowerChars == <<"a", "b", "c", "d", "e", "f", "g", "h", "i", "j", "k", "l", "m", "n", "o", "p", "q", "r", "s", "t", "u", "v", "w", "x", "y", "z">>

DigitChars == {"0", "1", "2", "3", "4", "5", "6", "7", "8", "9"}

LowerChar(c) ==
    IF \E i \in 1..Len(UpperChars) : UpperChars[i] = c
    THEN LowerChars[CHOOSE i \in 1..Len(UpperChars) : UpperChars[i] = c]
    ELSE c

\* s.lower()
lower(s) == [i \in 1..Len(s) |-> LowerChar(s[i])]

\* sub in s
contains(s, sub) ==
    \E i \in 0..(Len(s) - Len(sub)) : SubSeq(s, i + 1, i + Len(sub)) = sub

\* s.isdigit(): non-empty and every character a digit
isdigit(s) == Len(s) > 0 /\ \A i \in 1..Len(s) : s[i] \in DigitChars

RECURSIVE split_from(_, _, _, _)
\* the parts of s from position i on, cur being the part read so far
split_from(s, sep, i, cur) ==
    IF i > Len(s) THEN <<cur>>
    ELSE IF s[i] = sep THEN <<cur>> \o split_from(s, sep, i + 1, <<>>)
    ELSE split_from(s, sep, i + 1, Append(cur, s[i]))

\* s.split(sep) for a one-character separator
split(s, sep) == split_from(s, sep, 1, <<>>)

(***************************************************************************)
(* str() and repr()                                                        *)
(***************************************************************************)
DigitOf(d) == <<"0", "1", "2", "3", "4", "5", "6", "7", "8", "9">>[d + 1]

RECURSIVE NatToStr(_)
NatToStr(n) == IF n < 10 THEN <<DigitOf(n)>>
               ELSE NatToStr(n \div 10) \o <<DigitOf(n % 10)>>

IntToStr(n) == IF n < 0 THEN <<"-">> \o NatToStr(-n) ELSE NatToStr(n)

RECURSIVE py_repr(_)
RECURSIVE join_reprs(_, _)
RECURSIVE join_items(_, _)
\* ", ".join(repr(x) for x in l[i:])
join_reprs(l, i) ==
    IF i > Len(l) THEN <<>>
    ELSE py_repr(l[i]) \o (IF i < Len(l) THEN <<",", " ">> ELSE <<>>) \o join_reprs(l, i + 1)

\* ", ".join(repr(k) + ": " + repr(v) for k, v in m[i:])
join_items(m, i) ==
    IF i > Len(m) THEN <<>>
    ELSE py_repr(m[i][1]) \o <<":", " ">> \o py_repr(m[i][2])
         \o (IF i < Len(m) THEN <<",", " ">> ELSE <<>>) \o join_items(m, i + 1)

\* repr(v); a string is quoted with ' (the strings modelled hold no quote or backslash)
py_repr(v) ==
    CASE v.kind = "null" -> <<"N", "o", "n", "e">>
      [] v.kind = "bool" -> IF v.val THEN <<"T", "r", "u", "e">> ELSE <<"F", "a", "l", "s", "e">>
      [] v.kind = "int" -> IntToStr(v.val)
      [] v.kind = "float" -> IntToStr(v.val) \o <<".", "0">>
      [] v.kind = "str" -> <<"'">> \o v.val \o <<"'">>
      [] v.kind = "list" -> <<"[">> \o join_reprs(v.val, 1) \o <<"]">>
      [] v.kind = "dict" -> <<"{">> \o join_items(v.val, 1) \o <<"}">>

\* str(v): a string is itself, anything else its repr
py_str(v) == IF v.kind = "str" THEN v.val ELSE py_repr(v)

(***************************************************************************)
(* Normalizer                                                              *)
(***************************************************************************)
\* the environment's rule applied to ports and volumes: a mapping is passed through
normalize_to_list_keeps_dict(value) ==
    IF value.kind = "null" THEN PyList(<<>>)
    ELSE IF value.kind \in {"list", "dict"} THEN value
    ELSE PyList(<<value>>)

normalize_to_list(value) ==
    IF value.kind = "null" THEN PyList(<<>>)
    ELSE IF value.kind = "list" THEN value
    ELSE PyList(<<value>>)

normalize_environment(value) ==
    IF value.kind = "null" THEN PyList(<<>>)
    ELSE IF value.kind \in {"list", "dict"} THEN value
    ELSE PyList(<<value>>)

(***************************************************************************)
(* Classifiers                                                             *)
(***************************************************************************)
DATABASE_IMAGE_KEYWORDS == <<<<"p", "o", "s", "t", "g", "r", "e", "s">>, <<"m", "y", "s", "q", "l">>, <<"m", "a", "r", "i", "a", "d", "b">>, <<"m", "o", "n", "g", "o">>, <<"r", "e", "d", "i", "s">>>>

\* bool(image): None and the empty string are falsy
Truthy(image) == image.kind = "str" /\ Len(image.val) > 0

is_database_image(image) ==
    IF ~Truthy(image) THEN FALSE
    ELSE LET lowered == lower(image.val)
         IN \E k \in 1..Len(DATABASE_IMAGE_KEYWORDS) :
                contains(lowered, DATABASE_IMAGE_KEYWORDS[k])

is_redis_image(image) == Truthy(image) /\ contains(lower(image.val), <<"r", "e", "d", "i", "s">>)

WEB_PORT_STRINGS == {<<"8", "0">>, <<"4", "4", "3">>}

WEB_PORT_NUMBERS == {80, 443}

\* the body of the loop for one port entry: TRUE when it returns True
port_entry_exposed(port) ==
    IF port.kind = "str" THEN
        LET lowered == lower(port.val)
            parts == split(lowered, ":")
            numeric_parts == SelectSeq(parts, isdigit)
        IN \/ contains(lowered, <<"0", ".", "0", ".", "0", ".", "0">>)
           \/ \E i \in 1..Len(numeric_parts) : numeric_parts[i] \in WEB_PORT_STRINGS
    ELSE IF IsInt(port) THEN IntOf(port) \in WEB_PORT_NUMBERS
    ELSE IF port.kind = "dict" THEN
        LET host_ip == lower(py_str(dict_get(port, <<"h", "o", "s", "t", "_", "i", "p">>, PyStr(<<>>))))
            target == py_str(dict_get(port, <<"t", "a", "r", "g", "e", "t">>, PyStr(<<>>)))
            published == py_str(dict_get(port, <<"p", "u", "b", "l", "i", "s", "h", "e", "d">>, PyStr(<<>>)))
        IN \/ host_ip = <<"0", ".", "0", ".", "0", ".", "0">>
           \/ target \in WEB_PORT_STRINGS
           \/ published \in WEB_PORT_STRINGS
    ELSE FALSE

\* the final return False inside the loop: only the first entry is looked at
ports_loop_first_only(ports, i) ==
    IF i > Len(ports) THEN FALSE
    ELSE port_entry_exposed(ports[i])

RECURSIVE ports_loop(_, _)
\* for port in ports[i:] (ports the items), returning True at the first entry that matches
ports_loop(ports, i) ==
    IF i > Len(ports) THEN FALSE
    ELSE IF port_entry_exposed(ports[i]) THEN TRUE
    ELSE ports_loop(ports, i + 1)

is_publicly_exposed_ports(ports) == ports_loop(ports.val, 1)

has_persistent_storage(volumes) == Len(volumes.val) > 0

(***************************************************************************)
(* Recommender and risk scorer                                             *)
(***************************************************************************)
\* the database flag tested before the redis check
suggest_cloud_service_flag_first(image, database_flag) ==
    IF database_flag THEN "Managed Relational Database Service"
    ELSE IF is_redis_image(image) THEN "Managed Cache Service"
    ELSE "Virtual Machine or Container Service"

suggest_cloud_service(image, database_flag) ==
    IF is_redis_image(image) THEN "Managed Cache Service"
    ELSE IF database_flag THEN "Managed Relational Database Service"
    ELSE "Virtual Machine or Container Service"

assess_exposure_risk(is_database, is_publicly_exposed) ==
    IF is_publicly_exposed /\ is_database THEN "High"
    ELSE IF is_publicly_exposed /\ ~is_database THEN "Medium"
    ELSE "Low"

\* a database is High whether it has volumes or not
assess_data_loss_risk_any_db(is_database, has_persistent_storage_flag) ==
    IF is_database THEN "High"
    ELSE IF has_persistent_storage_flag THEN "Medium"
    ELSE "Low"

assess_data_loss_risk(is_database, has_persistent_storage_flag) ==
    IF is_database /\ has_persistent_storage_flag THEN "High"
    ELSE IF has_persistent_storage_flag THEN "Medium"
    ELSE "Low"

\* >= for > in both thresholds
assess_migration_complexity_ge(total_services) ==
    IF total_services >= 6 THEN "High"
    ELSE IF total_services >= 3 THEN "Medium"
    ELSE "Low"

assess_migration_complexity(total_services) ==
    IF total_services > 6 THEN "High"
    ELSE IF total_services > 3 THEN "Medium"
    ELSE "Low"

build_risk_assessment(is_database, is_publicly_exposed, has_persistent_storage_flag, total_services) ==
    [exposure_risk |-> assess_exposure_risk(is_database, is_publicly_exposed),
     data_loss_risk |-> assess_data_loss_risk(is_database, has_persistent_storage_flag),
     migration_complexity |-> assess_migration_complexity(total_services)]

(***************************************************************************)
(* Aggregator                                                              *)
(***************************************************************************)
\* >= 2 for > 2
assess_overall_migration_risk_ge(total_stateful_services, has_publicly_exposed_database) ==
    IF has_publicly_exposed_database THEN "High"
    ELSE IF total_stateful_services >= 2 THEN "Medium"
    ELSE "Low"

assess_overall_migration_risk(total_stateful_services, has_publicly_exposed_database) ==
    IF has_publicly_exposed_database THEN "High"
    ELSE IF total_stateful_services > 2 THEN "Medium"
    ELSE "Low"

\* a database and an exposed service anywhere in the manifest, not in one service
build_infrastructure_summary_any_pair(services) ==
    LET names == DOMAIN services
        total_stateful_services ==
            Cardinality({n \in names : services[n].has_persistent_storage})
        has_publicly_exposed_database ==
            /\ \E n \in names : services[n].is_database
            /\ \E n \in names : services[n].is_publicly_exposed
    IN [total_services |-> Cardinality(names),
        total_database_services |->
            Cardinality({n \in names : services[n].is_database}),
        total_publicly_exposed_services |->
            Cardinality({n \in names : services[n].is_publicly_exposed}),
        total_stateful_services |-> total_stateful_services,
        overall_migration_risk |->
            assess_overall_migration_risk(total_stateful_services,
                                          has_publicly_exposed_database)]

\* services: the dict of the normalized services, a function from the key to the record
build_infrastructure_summary(services) ==
    LET names == DOMAIN services
        total_services == Cardinality(names)
        total_database_services ==
            Cardinality({n \in names : services[n].is_database})
        total_publicly_exposed_services ==
            Cardinality({n \in names : services[n].is_publicly_exposed})
        total_stateful_services ==
            Cardinality({n \in names : services[n].has_persistent_storage})
        has_publicly_exposed_database ==
            \E n \in names : services[n].is_database /\ services[n].is_publicly_exposed
    IN [total_services |-> total_services,
        total_database_services |-> total_database_services,
        total_publicly_exposed_services |-> total_publicly_exposed_services,
        total_stateful_services |-> total_stateful_services,
        overall_migration_risk |->
            assess_overall_migration_risk(total_stateful_services,
                                          has_publicly_exposed_database)]

(***************************************************************************)
(* The inputs: parsed manifests                                            *)
(***************************************************************************)
\* the longest varied prefix of a services mapping
MaxHead == 2

\* the most plain services that follow the prefix
MaxFill == 5

Field(name, value) == <<PyStr(name), value>>

\* scenario A's web: not a database, exposed (port 80), stateful
F_web ==
    PyDict(<<Field(<<"i", "m", "a", "g", "e">>, PyStr(<<"n", "g", "i", "n", "x", ":", "l", "a", "t", "e", "s", "t">>)),
             Field(<<"p", "o", "r", "t", "s">>, PyList(<<PyStr(<<"8", "0", "8", "0", ":", "8", "0">>)>>)),
             Field(<<"v", "o", "l", "u", "m", "e", "s">>, PyList(<<PyStr(<<".", "/", "a", "p", "p", ":", "/", "u", "s", "r", "/", "s", "h", "a", "r", "e", "/", "n", "g", "i", "n", "x", "/", "h", "t", "m", "l">>)>>))>>)

\* scenario A's db: database, not exposed, stateful, environment a mapping
F_db ==
    PyDict(<<Field(<<"i", "m", "a", "g", "e">>, PyStr(<<"p", "o", "s", "t", "g", "r", "e", "s", ":", "1", "6">>)),
             Field(<<"p", "o", "r", "t", "s">>, PyList(<<PyStr(<<"5", "4", "3", "2", ":", "5", "4", "3", "2">>)>>)),
             Field(<<"e", "n", "v", "i", "r", "o", "n", "m", "e", "n", "t">>, PyDict(<<Field(<<"P", "O", "S", "T", "G", "R", "E", "S", "_", "D", "B">>, PyStr(<<"a", "p", "p">>))>>)),
             Field(<<"v", "o", "l", "u", "m", "e", "s">>, PyList(<<PyStr(<<"d", "b", "_", "d", "a", "t", "a", ":", "/", "v", "a", "r", "/", "l", "i", "b", "/", "p", "o", "s", "t", "g", "r", "e", "s", "q", "l", "/", "d", "a", "t", "a">>)>>))>>)

\* a cache with scalar ports and volumes: database, exposed (0.0.0.0), stateful
F_cache ==
    PyDict(<<Field(<<"i", "m", "a", "g", "e">>, PyStr(<<"R", "e", "d", "i", "s", ":", "7">>)),
             Field(<<"p", "o", "r", "t", "s">>, PyStr(<<"0", ".", "0", ".", "0", ".", "0", ":", "6", "3", "7", "9", ":", "6", "3", "7", "9">>)),
             Field(<<"v", "o", "l", "u", "m", "e", "s">>, PyStr(<<"c", "a", "c", "h", "e", ":", "/", "d", "a", "t", "a">>))>>)

\* database, exposed (integer port 443), no volumes
F_pubdb ==
    PyDict(<<Field(<<"i", "m", "a", "g", "e">>, PyStr(<<"m", "y", "-", "m", "o", "n", "g", "o", "-", "d", "b">>)),
             Field(<<"p", "o", "r", "t", "s">>, PyList(<<PyInt(27017), PyInt(443)>>)),
             Field(<<"v", "o", "l", "u", "m", "e", "s">>, None)>>)

\* a numeric image and a long-syntax port: not a database, exposed, no volumes
F_longport ==
    PyDict(<<Field(<<"i", "m", "a", "g", "e">>, PyInt(5)),
             Field(<<"p", "o", "r", "t", "s">>, PyList(<<PyDict(<<Field(<<"t", "a", "r", "g", "e", "t">>, PyInt(80)),
                                              Field(<<"p", "u", "b", "l", "i", "s", "h", "e", "d">>, PyStr(<<"8", "0", "8", "0">>))>>)>>))>>)

\* database, not exposed, no volumes, environment a list
F_plaindb ==
    PyDict(<<Field(<<"i", "m", "a", "g", "e">>, PyStr(<<"m", "a", "r", "i", "a", "d", "b">>)),
             Field(<<"e", "n", "v", "i", "r", "o", "n", "m", "e", "n", "t">>, PyList(<<PyStr(<<"T", "Z", "=", "U", "T", "C">>)>>))>>)

\* no image, scalar environment: not a database, not exposed, stateful
F_vol ==
    PyDict(<<Field(<<"i", "m", "a", "g", "e">>, None),
             Field(<<"e", "n", "v", "i", "r", "o", "n", "m", "e", "n", "t">>, PyStr(<<"D", "E", "B", "U", "G">>)),
             Field(<<"v", "o", "l", "u", "m", "e", "s">>, PyList(<<PyStr(<<"d", "a", "t", "a", ":", "/", "d", "a", "t", "a">>)>>))>>)

\* the empty mapping
F_empty == PyDict(<<>>)

MappingFragments ==
    {F_web, F_db, F_cache, F_pubdb, F_longport, F_plaindb, F_vol, F_empty}

\* fragments that are not mappings: null, a scalar, a sequence
NonMappingFragments == {None, PyStr(<<"r", "e", "d", "i", "s">>), PyList(<<F_cache>>)}

Fragments == MappingFragments \cup NonMappingFragments

FillFragments == {F_empty, F_vol}

\* service names as the parser yields them: strings, and the integer 1
ServiceKeys == {PyStr(<<"w", "e", "b">>), PyStr(<<"1">>), PyInt(1)}

\* the varied prefixes: up to MaxHead services under distinct keys
Heads ==
    UNION {{h \in [1..n -> ServiceKeys \X Fragments] :
               \A i, j \in 1..n : i # j => h[i][1] # h[j][1]} : n \in 0..MaxHead}

\* k services s1 .. sk with the same fragment
Fill(k, frag) == [i \in 1..k |-> <<PyStr(<<"s">> \o NatToStr(i)), frag>>]

Fills == {Fill(0, F_empty)} \cup {Fill(k, f) : k \in 1..MaxFill, f \in FillFragments}

ServiceMappings == {h \o t : h \in Heads, t \in Fills}

Root(services) ==
    PyDict(<<Field(<<"v", "e", "r", "s", "i", "o", "n">>, PyStr(<<"3", ".", "8">>)), Field(<<"s", "e", "r", "v", "i", "c", "e", "s">>, services)>>)

\* roots the validation rejects
BadRoots ==
    {None, PyList(<<>>), PyStr(<<"s", "e", "r", "v", "i", "c", "e", "s">>), PyDict(<<>>),
     PyDict(<<Field(<<"v", "e", "r", "s", "i", "o", "n">>, PyStr(<<"3", ".", "8">>))>>),
     Root(None), Root(PyStr(<<"w", "e", "b">>)), Root(PyList(<<F_web>>)), Root(PyList(<<>>))}

Manifests == BadRoots \cup {Root(PyDict(m)) : m \in ServiceMappings}

(***************************************************************************)
(* analyze_compose, from the parsed tree on                                *)
(***************************************************************************)
\* no function of the helpers is being called
Idle == [fn |-> "none", args |-> <<>>, done |-> FALSE, ret |-> None]

EmptyDict == [k \in {} |-> None]

Init ==
    /\ parsed \in Manifests
    /\ pc = "validate"
    /\ services_data = None
    /\ service_count_total = 0
    /\ idx = 0
    /\ normalized_services = EmptyDict
    /\ response = None
    /\ detail = ""
    /\ call = Idle

\* one iteration of the loop over services_data.items(): the entry stored
service_entry(config, total) ==
    LET service_config == IF config.kind = "dict" THEN config ELSE PyDict(<<>>)
        image_value ==
            IF dict_get(service_config, <<"i", "m", "a", "g", "e">>, None).kind # "null"
            THEN PyStr(py_str(dict_get(service_config, <<"i", "m", "a", "g", "e">>, None)))
            ELSE None
        ports == normalize_to_list(dict_get(service_config, <<"p", "o", "r", "t", "s">>, None))
        environment == normalize_environment(dict_get(service_config, <<"e", "n", "v", "i", "r", "o", "n", "m", "e", "n", "t">>, None))
        volumes == normalize_to_list(dict_get(service_config, <<"v", "o", "l", "u", "m", "e", "s">>, None))
        database_flag == is_database_image(image_value)
        publicly_exposed_flag == is_publicly_exposed_ports(ports)
        persistent_storage_flag == has_persistent_storage(volumes)
    IN [image |-> image_value,
        ports |-> ports,
        environment |-> environment,
        volumes |-> volumes,
        is_database |-> database_flag,
        is_publicly_exposed |-> publicly_exposed_flag,
        has_persistent_storage |-> persistent_storage_flag,
        suggested_cloud_service |-> suggest_cloud_service(image_value, database_flag),
        risk_assessment |-> build_risk_assessment(database_flag, publicly_exposed_flag, persistent_storage_flag, total)]

\* normalized_services[key] = entry
dict_set(d, key, entry) == (key :> entry) @@ d

\* "services_data is None" for "not isinstance(services_data, dict)"
has_services_key(root) == dict_get(root, <<"s", "e", "r", "v", "i", "c", "e", "s">>, None).kind # "null"

\* services_data = parsed.get("services"); isinstance(services_data, dict)
has_services_mapping(root) == dict_get(root, <<"s", "e", "r", "v", "i", "c", "e", "s">>, None).kind = "dict"

RejectRoot ==
    /\ pc = "validate"
    /\ parsed.kind # "dict"
    /\ pc' = "failed"
    /\ detail' = "YAML root must be a mapping/object."
    /\ UNCHANGED <<parsed, services_data, service_count_total, idx,
                   normalized_services, response, call>>

RejectServices ==
    /\ pc = "validate"
    /\ parsed.kind = "dict"
    /\ ~has_services_mapping(parsed)
    /\ pc' = "failed"
    /\ detail' = "Compose file must include a 'services' mapping."
    /\ UNCHANGED <<parsed, services_data, service_count_total, idx,
                   normalized_services, response, call>>

EnterCore ==
    /\ pc = "validate"
    /\ parsed.kind = "dict"
    /\ has_services_mapping(parsed)
    /\ services_data' = dict_get(parsed, <<"s", "e", "r", "v", "i", "c", "e", "s">>, None)
    /\ normalized_services' = EmptyDict
    /\ service_count_total' = Len(dict_get(parsed, <<"s", "e", "r", "v", "i", "c", "e", "s">>, None).val)
    /\ idx' = 1
    /\ pc' = "loop"
    /\ UNCHANGED <<parsed, response, detail, call>>

LoopService ==
    /\ pc = "loop"
    /\ idx <= Len(services_data.val)
    /\ LET service_name == services_data.val[idx][1]
           config == services_data.val[idx][2]
           service_name_str == py_str(service_name)
       IN normalized_services' =
              dict_set(normalized_services, service_name_str,
                       service_entry(config, service_count_total))
    /\ idx' = idx + 1
    /\ UNCHANGED <<pc, parsed, services_data, service_count_total, response, detail, call>>

Respond ==
    /\ pc = "loop"
    /\ idx > Len(services_data.val)
    /\ response' =
           [service_count |-> Cardinality(DOMAIN normalized_services),
            services |-> normalized_services,
            infrastructure_summary |-> build_infrastructure_summary(normalized_services)]
    /\ pc' = "done"
    /\ UNCHANGED <<parsed, services_data, service_count_total, idx,
                   normalized_services, detail, call>>

Next == RejectRoot \/ RejectServices \/ EnterCore \/ LoopService \/ Respond

Spec == Init /\ [][Next]_vars

(***************************************************************************)
(* The helpers called on their own: the call is the state                  *)
(***************************************************************************)
\* the handler's variables while a helper is checked on its own
HandlerIdle ==
    /\ pc = "idle"
    /\ parsed = None
    /\ services_data = None
    /\ service_count_total = 0
    /\ idx = 0
    /\ normalized_services = EmptyDict
    /\ response = None
    /\ detail = ""

HandlerVars == <<pc, parsed, services_data, service_count_total, idx,
                 normalized_services, response, detail>>

Call(fn, args) == [fn |-> fn, args |-> args, done |-> FALSE, ret |-> None]

Return(value) == [call EXCEPT !.done = TRUE, !.ret = value]

\* ---- is_publicly_exposed_ports ----
\* the longest port sequence
MaxPorts == 2

PortStrings ==
    {PyStr(<<"8", "0", "8", "0", ":", "8", "0">>), PyStr(<<"8", "0">>), PyStr(<<"0", ".", "0", ".", "0", ".", "0", ":", "4", "4", "3", ":", "4", "4", "3">>), PyStr(<<"8", "0", "8", "0", ":", "8", "0", "8", "1">>),
     PyStr(<<"4", "4", "3", ":", "8", "4", "4", "3">>), PyStr(<<"1", "2", "7", ".", "0", ".", "0", ".", "1", ":", "8", "0", "8", "0", ":", "8", "0", "8", "0">>), PyStr(<<"8", "0", "8", "0", ":", "8", "0", "/", "t", "c", "p">>),
     PyStr(<<"0", ".", "0", ".", "0", ".", "0", ":", "9", "0", "0", "0">>), PyStr(<<>>), PyStr(<<"8", "0", "8", "0">>), PyStr(<<"4", "4", "3", "0", ":", "1", "8", "0">>)}

PortNumbers == {PyInt(80), PyInt(443), PyInt(8080), PyInt(1)}

PortMappings ==
    {PyDict(<<Field(<<"h", "o", "s", "t", "_", "i", "p">>, PyStr(<<"0", ".", "0", ".", "0", ".", "0">>)), Field(<<"t", "a", "r", "g", "e", "t">>, PyInt(8080))>>),
     PyDict(<<Field(<<"t", "a", "r", "g", "e", "t">>, PyInt(8081))>>),
     PyDict(<<Field(<<"t", "a", "r", "g", "e", "t">>, PyInt(80))>>),
     PyDict(<<Field(<<"t", "a", "r", "g", "e", "t">>, PyStr(<<"4", "4", "3">>)), Field(<<"p", "u", "b", "l", "i", "s", "h", "e", "d">>, PyStr(<<"8", "4", "4", "3">>))>>),
     PyDict(<<Field(<<"p", "u", "b", "l", "i", "s", "h", "e", "d">>, PyInt(443)), Field(<<"t", "a", "r", "g", "e", "t">>, PyInt(8443))>>),
     PyDict(<<Field(<<"h", "o", "s", "t", "_", "i", "p">>, PyStr(<<"1", "2", "7", ".", "0", ".", "0", ".", "1">>)), Field(<<"p", "u", "b", "l", "i", "s", "h", "e", "d">>, PyStr(<<"8", "0", "8", "0">>))>>),
     PyDict(<<Field(<<"t", "a", "r", "g", "e", "t">>, PyFloat(80))>>),
     PyDict(<<Field(<<"h", "o", "s", "t", "_", "i", "p">>, None), Field(<<"p", "r", "o", "t", "o", "c", "o", "l">>, PyStr(<<"8", "0">>))>>),
     PyDict(<<>>)}

\* entries that are neither a string, an integer nor a mapping (and a bool, an int to Python)
PortOthers == {None, PyFloat(80), PyBool(TRUE), PyList(<<PyInt(80)>>)}

PortEntries == PortStrings \cup PortNumbers \cup PortMappings \cup PortOthers

PortLists == UNION {{PyList(l) : l \in [1..n -> PortEntries]} : n \in 0..MaxPorts}

InitPorts ==
    /\ HandlerIdle
    /\ \E ports \in PortLists : call = Call("is_publicly_exposed_ports", <<ports>>)

CallIsPubliclyExposedPorts ==
    /\ call.fn = "is_publicly_exposed_ports"
    /\ ~call.done
    /\ call' = Return(is_publicly_exposed_ports(call.args[1]))
    /\ UNCHANGED HandlerVars

SpecPorts == InitPorts /\ [][CallIsPubliclyExposedPorts]_vars

\* ---- suggest_cloud_service ----
ImageCores ==
    {<<"p", "o", "s", "t", "g", "r", "e", "s">>, <<"m", "y", "s", "q", "l">>, <<"m", "a", "r", "i", "a", "d", "b">>, <<"m", "o", "n", "g", "o">>, <<"r", "e", "d", "i", "s">>, <<"R", "e", "d", "i", "s">>, <<"R", "E", "D", "I", "S">>,
     <<"n", "g", "i", "n", "x">>, <<"r", "e", "d", "i", "s", "t", "r", "i", "b", "u", "t", "i", "o", "n">>, <<"r", "e", "d", "i">>, <<>>}

ImagePrefixes == {<<>>, <<"m", "y", "-">>, <<"r", "e", "g", "i", "s", "t", "r", "y", ".", "i", "o", "/">>}

ImageSuffixes == {<<>>, <<":", "7">>, <<"-", "s">>}

\* image_value: a string, or None when the field is absent or null
Images == {None} \cup {PyStr(a \o b \o c) : a \in ImagePrefixes, b \in ImageCores, c \in ImageSuffixes}

InitCloud ==
    /\ HandlerIdle
    /\ \E image \in Images, database_flag \in BOOLEAN :
           call = Call("suggest_cloud_service", <<image, database_flag>>)

CallSuggestCloudService ==
    /\ call.fn = "suggest_cloud_service"
    /\ ~call.done
    /\ call' = Return(suggest_cloud_service(call.args[1], call.args[2]))
    /\ UNCHANGED HandlerVars

SpecCloud == InitCloud /\ [][CallSuggestCloudService]_vars

\* ---- normalize_to_list and normalize_environment on a service's fields ----
\* the longest sequence given as a field's value
MaxItems == 2

FieldScalars == {PyStr(<<"8", "0", "8", "0", ":", "8", "0">>), PyStr(<<>>), PyInt(80), PyInt(0), PyBool(FALSE), PyFloat(1)}

FieldItems == {PyStr(<<"A", "=", "b">>), PyInt(80), None, PyList(<<>>), PyDict(<<>>)}

FieldLists == UNION {{PyList(l) : l \in [1..n -> FieldItems]} : n \in 0..MaxItems}

FieldMappings ==
    {PyDict(<<>>), PyDict(<<Field(<<"t", "a", "r", "g", "e", "t">>, PyInt(80))>>),
     PyDict(<<Field(<<"D", "E", "B", "U", "G">>, PyStr(<<"f", "a", "l", "s", "e">>)), Field(<<"N">>, PyInt(1))>>)}

FieldValues == {None} \cup FieldScalars \cup FieldLists \cup FieldMappings

FieldNames == {<<"p", "o", "r", "t", "s">>, <<"e", "n", "v", "i", "r", "o", "n", "m", "e", "n", "t">>, <<"v", "o", "l", "u", "m", "e", "s">>}

\* service configurations with at most one of the three fields present
FieldConfigs ==
    {PyDict(<<>>)} \cup {PyDict(<<Field(f, v)>>) : f \in FieldNames, v \in FieldValues}

InitNormalize ==
    /\ HandlerIdle
    /\ \E config \in FieldConfigs : call = Call("normalize", <<config>>)

\* ports = normalize_to_list(service_config.get("ports"))
NormalizePorts ==
    /\ call.fn = "normalize"
    /\ ~call.done
    /\ call' = [Return(normalize_to_list(dict_get(call.args[1], <<"p", "o", "r", "t", "s">>, None)))
                   EXCEPT !.fn = "ports"]
    /\ UNCHANGED HandlerVars

\* environment = normalize_environment(service_config.get("environment"))
NormalizeEnvironment ==
    /\ call.fn = "normalize"
    /\ ~call.done
    /\ call' = [Return(normalize_environment(dict_get(call.args[1], <<"e", "n", "v", "i", "r", "o", "n", "m", "e", "n", "t">>, None)))
                   EXCEPT !.fn = "environment"]
    /\ UNCHANGED HandlerVars

\* volumes = normalize_to_list(service_config.get("volumes"))
NormalizeVolumes ==
    /\ call.fn = "normalize"
    /\ ~call.done
    /\ call' = [Return(normalize_to_list(dict_get(call.args[1], <<"v", "o", "l", "u", "m", "e", "s">>, None)))
                   EXCEPT !.fn = "volumes"]
    /\ UNCHANGED HandlerVars

NextNormalize == NormalizePorts \/ NormalizeEnvironment \/ NormalizeVolumes

SpecNormalize == InitNormalize /\ [][NextNormalize]_vars

(***************************************************************************)
(* Properties of a response (specification Spec)                           *)
(***************************************************************************)
\* the <<name, fragment>> pairs of the input services mapping
Items == services_data.val

HasReport == "service_count" \in DOMAIN response

\* the root is a mapping that holds a services key whose value is a mapping
ValidManifest ==
    /\ parsed.kind = "dict"
    /\ \E i \in 1..Len(parsed.val) :
           parsed.val[i][1] = PyStr(<<"s", "e", "r", "v", "i", "c", "e", "s">>) /\ parsed.val[i][2].kind = "dict"

\* C1: every service name of the input services mapping appears exactly once in
\* the output under its string form: the output has as many entries as the
\* input has services, and service_count is the number of input services.
C1_EveryServiceOnce ==
    pc = "done" =>
        /\ \A i \in 1..Len(Items) : py_str(Items[i][1]) \in DOMAIN response.services
        /\ Cardinality(DOMAIN response.services) = Len(Items)
        /\ response.service_count = Len(Items)

\* C4: overall_migration_risk is High if some single service is both a database
\* and publicly exposed; otherwise Medium if more than 2 services have
\* persistent storage; otherwise Low.
C4_OverallRisk ==
    pc = "done" =>
        LET S == response.services
            exposed_db == \E k \in DOMAIN S : S[k].is_database /\ S[k].is_publicly_exposed
            stateful == Cardinality({k \in DOMAIN S : S[k].has_persistent_storage})
            risk == response.infrastructure_summary.overall_migration_risk
        IN /\ exposed_db => risk = "High"
           /\ (~exposed_db /\ stateful > 2) => risk = "Medium"
           /\ (~exposed_db /\ stateful <= 2) => risk = "Low"

\* a database service and a different exposed service, none both, and exactly
\* 2 stateful services: the verdict is Low
C4_Witness ==
    /\ pc = "done"
    /\ LET S == response.services
       IN /\ \E k \in DOMAIN S : S[k].is_database
          /\ \E k \in DOMAIN S : S[k].is_publicly_exposed
          /\ ~\E k \in DOMAIN S : S[k].is_database /\ S[k].is_publicly_exposed
          /\ Cardinality({k \in DOMAIN S : S[k].has_persistent_storage}) = 2
    /\ response.infrastructure_summary.overall_migration_risk = "Low"

\* C5: each service's exposure_risk and data_loss_risk follow from its own
\* three flags: exposure High for an exposed database, Medium for an exposed
\* non-database, Low otherwise; data loss High for a database with persistent
\* storage, Medium for a non-database with it, Low without it.
C5_PerServiceRisks ==
    pc = "done" =>
        \A k \in DOMAIN response.services :
            LET e == response.services[k]
                db == e.is_database
                ex == e.is_publicly_exposed
                st == e.has_persistent_storage
            IN /\ (db /\ ex) => e.risk_assessment.exposure_risk = "High"
               /\ (~db /\ ex) => e.risk_assessment.exposure_risk = "Medium"
               /\ ~ex => e.risk_assessment.exposure_risk = "Low"
               /\ (db /\ st) => e.risk_assessment.data_loss_risk = "High"
               /\ (~db /\ st) => e.risk_assessment.data_loss_risk = "Medium"
               /\ ~st => e.risk_assessment.data_loss_risk = "Low"

\* a response with an exposed database without volumes (High, Low) next to a
\* stateful non-database that is not exposed (Low, Medium)
C5_Witness ==
    /\ pc = "done"
    /\ \E k \in DOMAIN response.services :
           LET e == response.services[k]
           IN /\ e.is_database /\ e.is_publicly_exposed /\ ~e.has_persistent_storage
              /\ e.risk_assessment.exposure_risk = "High"
              /\ e.risk_assessment.data_loss_risk = "Low"
    /\ \E k \in DOMAIN response.services :
           LET e == response.services[k]
           IN /\ ~e.is_database /\ ~e.is_publicly_exposed /\ e.has_persistent_storage
              /\ e.risk_assessment.data_loss_risk = "Medium"

\* C6: every service of a response carries the same migration_complexity, set
\* by the number of services of the input manifest: High above 6, Medium from
\* 4 to 6, Low up to 3.
C6_MigrationComplexity ==
    pc = "done" =>
        \A k \in DOMAIN response.services :
            LET n == Len(Items)
                c == response.services[k].risk_assessment.migration_complexity
            IN /\ n > 6 => c = "High"
               /\ (n > 3 /\ n <= 6) => c = "Medium"
               /\ n <= 3 => c = "Low"

\* a manifest of 7 services answered with High
C6_Witness ==
    /\ pc = "done"
    /\ Len(Items) = 7
    /\ Cardinality(DOMAIN response.services) = 7
    /\ \A k \in DOMAIN response.services :
           response.services[k].risk_assessment.migration_complexity = "High"

\* what C8 says of a response: each service whose fragment is not a mapping is
\* reported empty and unclassified, and every other service is classified as
\* its own fragment alone is
NonMappingTolerated ==
    \A i \in 1..Len(Items) :
        Items[i][2].kind # "dict" =>
            /\ py_str(Items[i][1]) \in DOMAIN response.services
            /\ LET e == response.services[py_str(Items[i][1])]
               IN /\ e.image = None
                  /\ e.ports = PyList(<<>>)
                  /\ e.environment = PyList(<<>>)
                  /\ e.volumes = PyList(<<>>)
                  /\ ~e.is_database
                  /\ ~e.is_publicly_exposed
                  /\ ~e.has_persistent_storage
                  /\ e.suggested_cloud_service = "Virtual Machine or Container Service"
                  /\ e.risk_assessment.exposure_risk = "Low"
                  /\ e.risk_assessment.data_loss_risk = "Low"
            /\ \A j \in 1..Len(Items) :
                   j # i =>
                       /\ py_str(Items[j][1]) \in DOMAIN response.services
                       /\ LET e == response.services[py_str(Items[j][1])]
                              alone == service_entry(Items[j][2], Len(Items) - 1)
                          IN /\ e.is_database = alone.is_database
                             /\ e.is_publicly_exposed = alone.is_publicly_exposed
                             /\ e.has_persistent_storage = alone.has_persistent_storage
                             /\ e.suggested_cloud_service = alone.suggested_cloud_service
                             /\ e.risk_assessment.exposure_risk = alone.risk_assessment.exposure_risk
                             /\ e.risk_assessment.data_loss_risk = alone.risk_assessment.data_loss_risk

\* C8: a service whose fragment is not a mapping is reported with image null,
\* empty ports, environment and volumes, all three flags false, the container
\* recommendation and Low exposure and data-loss risks, and the other services
\* of the manifest are classified as they would be without it.
C8_NonMappingTolerated == pc = "done" => NonMappingTolerated

\* no two service names of the input have the same string form
DistinctStringForms ==
    \A i, j \in 1..Len(Items) : i # j => py_str(Items[i][1]) # py_str(Items[j][1])

\* what remains of C8 when no two names share a string form
NonMappingToleratedUnlessClash ==
    (pc = "done" /\ DistinctStringForms) => NonMappingTolerated

\* C9: a root that is not a mapping, or whose services value is missing, null
\* or not a mapping, ends in a failure with a reason, with no service
\* normalized and no report; a services mapping never ends in that failure and
\* gets a report (inside the loop the position alone enables LoopService or
\* Respond, and the loop has no other exit).
C9_ManifestValidation ==
    /\ ~ValidManifest =>
           /\ DOMAIN normalized_services = {}
           /\ idx = 0
           /\ ~HasReport
           /\ \/ pc = "failed" /\ detail # ""
              \/ pc = "validate" /\ ENABLED (RejectRoot \/ RejectServices)
    /\ ValidManifest =>
           /\ pc # "failed"
           /\ detail = ""
           /\ \/ pc = "done" /\ HasReport
              \/ pc = "validate" /\ ~HasReport /\ ENABLED EnterCore
              \/ pc = "loop" /\ ~HasReport /\ idx \in 1..(Len(Items) + 1)

\* a services value that is present but not a mapping has been rejected
C9_Witness ==
    /\ pc = "failed"
    /\ parsed.kind = "dict"
    /\ \E i \in 1..Len(parsed.val) :
           parsed.val[i][1] = PyStr(<<"s", "e", "r", "v", "i", "c", "e", "s">>) /\ parsed.val[i][2].kind = "list"
    /\ detail = "Compose file must include a 'services' mapping."

\* C10: overall_migration_risk is High exactly when some service of the
\* response has exposure_risk High; the three totals are at most
\* total_services, which equals service_count.
C10_AggregateAgrees ==
    pc = "done" =>
        LET S == response.services
            sum == response.infrastructure_summary
        IN /\ sum.overall_migration_risk = "High"
               <=> \E k \in DOMAIN S : S[k].risk_assessment.exposure_risk = "High"
           /\ sum.total_database_services <= sum.total_services
           /\ sum.total_publicly_exposed_services <= sum.total_services
           /\ sum.total_stateful_services <= sum.total_services
           /\ sum.total_services = response.service_count

\* a High verdict with exactly one High service among several
C10_Witness ==
    /\ pc = "done"
    /\ response.service_count >= 3
    /\ response.infrastructure_summary.overall_migration_risk = "High"
    /\ Cardinality({k \in DOMAIN response.services :
                       response.services[k].risk_assessment.exposure_risk = "High"}) = 1

(***************************************************************************)
(* Properties of the helpers (SpecPorts, SpecCloud, SpecNormalize)         *)
(***************************************************************************)
\* the mapping m has the key name with a value whose string form is in strs
FieldIn(m, name, strs) ==
    \E i \in 1..Len(m.val) : m.val[i][1] = PyStr(name) /\ py_str(m.val[i][2]) \in strs

\* the port entry is one of those C2 lists
EntryMatches(port) ==
    \/ port.kind = "str" /\ contains(port.val, <<"0", ".", "0", ".", "0", ".", "0">>)
    \/ /\ port.kind = "str"
       /\ \E j \in 1..Len(split(port.val, ":")) :
              /\ isdigit(split(port.val, ":")[j])
              /\ split(port.val, ":")[j] \in {<<"8", "0">>, <<"4", "4", "3">>}
    \/ port.kind = "int" /\ port.val \in {80, 443}
    \/ /\ port.kind = "dict"
       /\ \/ \E i \in 1..Len(port.val) :
                 /\ port.val[i][1] = PyStr(<<"h", "o", "s", "t", "_", "i", "p">>)
                 /\ lower(py_str(port.val[i][2])) = <<"0", ".", "0", ".", "0", ".", "0">>
          \/ FieldIn(port, <<"t", "a", "r", "g", "e", "t">>, {<<"8", "0">>, <<"4", "4", "3">>})
          \/ FieldIn(port, <<"p", "u", "b", "l", "i", "s", "h", "e", "d">>, {<<"8", "0">>, <<"4", "4", "3">>})

\* C2: is_publicly_exposed_ports(ports) is true if and only if some entry of
\* the sequence is a string containing 0.0.0.0, a string with a numeric
\* ":"-segment "80" or "443", an integer 80 or 443, or a mapping whose host_ip
\* is "0.0.0.0" or whose target or published is "80" or "443"; it is false for
\* the empty sequence and when no entry matches, whatever the order.
C2_ExposedIffSomeEntryMatches ==
    (call.fn = "is_publicly_exposed_ports" /\ call.done) =>
        LET ports == call.args[1].val
        IN call.ret = (\E i \in 1..Len(ports) : EntryMatches(ports[i]))

\* true for a sequence whose only matching entry comes second, after an entry
\* of another type
C2_Witness ==
    /\ call.fn = "is_publicly_exposed_ports"
    /\ call.done
    /\ call.ret = TRUE
    /\ Len(call.args[1].val) = 2
    /\ call.args[1].val[1].kind \in {"null", "float", "list"}
    /\ EntryMatches(call.args[1].val[2])

\* C3: suggest_cloud_service returns "Managed Cache Service" whenever the image
\* is redis-like, whatever the database flag; otherwise "Managed Relational
\* Database Service" when the flag is true; otherwise "Virtual Machine or
\* Container Service"; and nothing else.
C3_ThreeWayDecision ==
    (call.fn = "suggest_cloud_service" /\ call.done) =>
        LET image == call.args[1]
            database_flag == call.args[2]
            redis_like == image.kind = "str" /\ contains(lower(image.val), <<"r", "e", "d", "i", "s">>)
        IN /\ call.ret \in {"Managed Cache Service",
                            "Managed Relational Database Service",
                            "Virtual Machine or Container Service"}
           /\ redis_like => call.ret = "Managed Cache Service"
           /\ (~redis_like /\ database_flag) =>
                  call.ret = "Managed Relational Database Service"
           /\ (~redis_like /\ ~database_flag) =>
                  call.ret = "Virtual Machine or Container Service"

\* a redis image written in capitals, with the database flag set, gets the cache
C3_Witness ==
    /\ call.fn = "suggest_cloud_service"
    /\ call.done
    /\ call.args[1].kind = "str"
    /\ contains(call.args[1].val, <<"R", "E", "D", "I", "S">>)
    /\ call.args[2] = TRUE
    /\ call.ret = "Managed Cache Service"

\* the field a normalization step read
FieldOf(fn) ==
    CASE fn = "ports" -> <<"p", "o", "r", "t", "s">>
      [] fn = "environment" -> <<"e", "n", "v", "i", "r", "o", "n", "m", "e", "n", "t">>
      [] fn = "volumes" -> <<"v", "o", "l", "u", "m", "e", "s">>

\* the configuration holds the field
Present(config, name) == Len(config.val) > 0 /\ config.val[1][1] = PyStr(name)

====
